---- MODULE Spec2Model ----
(***************************************************************************)
(* Model of src/main.py: the two FastAPI request handlers                  *)
(* get_single_arxiv_image and extract_article_content.                     *)
(*                                                                         *)
(* One behaviour is one request.  Strings are sequences of one-character   *)
(* strings, so that len(), rstrip(), lower(), the `in` substring test,     *)
(* the regex prefix match and urlparse are computed character by           *)
(* character.  Exceptions carry their class, and an except clause matches  *)
(* through the class hierarchy, in clause order.                           *)
(***************************************************************************)
EXTENDS Integers, Sequences, FiniteSets, TLC

(* ------------------------------ bounds --------------------------------- *)

\* most trailing slashes appended to a request url
MaxSlashes == 2
\* longest upstream body, in bytes
MaxBodyLen == 1
\* largest integer sent as the index parameter (indexes 0..MaxIndex)
MaxIndex == 5

(* -------------------------- program constants ------------------------- *)

\* Query(min_length=15) of get_single_arxiv_image
ImageUrlMinLength == 15
\* Query(min_length=10) of extract_article_content
ExtractUrlMinLength == 10
\* Query(ge=1)
IndexGe == 1
\* Query(le=4)
IndexLe == 4

(* ----------------------- string helpers (Python str) ------------------- *)

LowerTable ==
  ("A" :> "a") @@ ("B" :> "b") @@ ("C" :> "c") @@ ("D" :> "d") @@ ("E" :> "e") @@
  ("F" :> "f") @@ ("G" :> "g") @@ ("H" :> "h") @@ ("I" :> "i") @@ ("J" :> "j") @@
  ("K" :> "k") @@ ("L" :> "l") @@ ("M" :> "m") @@ ("N" :> "n") @@ ("O" :> "o") @@
  ("P" :> "p") @@ ("Q" :> "q") @@ ("R" :> "r") @@ ("S" :> "s") @@ ("T" :> "t") @@
  ("U" :> "u") @@ ("V" :> "v") @@ ("W" :> "w") @@ ("X" :> "x") @@ ("Y" :> "y") @@
  ("Z" :> "z")

UpperLetters == DOMAIN LowerTable

LowerLetters == {LowerTable[c] : c \in UpperLetters}

Digits == {"0", "1", "2", "3", "4", "5", "6", "7", "8", "9"}

DigitChar == <<"0", "1", "2", "3", "4", "5", "6", "7", "8", "9">>

\* a comparison that forgets to fold case
LowerKeepCase(s) == s

\* str.lower()
Lower(s) == [i \in 1..Len(s) |-> IF s[i] \in UpperLetters THEN LowerTable[s[i]] ELSE s[i]]

\* str.startswith(p)
StartsWith(s, p) == /\ Len(s) >= Len(p)
                    /\ SubSeq(s, 1, Len(p)) = p

\* `p in s` for strings
Contains(s, p) == \E i \in 0..(Len(s) - Len(p)) : SubSeq(s, i + 1, i + Len(p)) = p

\* str.find(c) for a single character, as a 1-based position; 0 when absent
Find(s, c) == IF \E i \in 1..Len(s) : s[i] = c
              THEN CHOOSE i \in 1..Len(s) : s[i] = c /\ \A j \in 1..(i - 1) : s[j] # c
              ELSE 0

\* str(n) for a non-negative integer
RECURSIVE IntToStr(_)
IntToStr(n) == IF n < 10 THEN <<DigitChar[n + 1]>>
               ELSE IntToStr(n \div 10) \o <<DigitChar[(n % 10) + 1]>>

\* k copies of "/"
RECURSIVE Slashes(_)
Slashes(k) == IF k = 0 THEN <<>> ELSE <<"/">> \o Slashes(k - 1)

\* all sequences over S of length at most n
RECURSIVE SeqsUpTo(_, _)
SeqsUpTo(S, n) == IF n = 0 THEN {<<>>}
                  ELSE LET shorter == SeqsUpTo(S, n - 1)
                       IN shorter \cup {Append(s, x) : s \in shorter, x \in S}

(* ------------------------------ literals ------------------------------- *)

HttpsArxivHtml == <<"h","t","t","p","s",":","/","/","a","r","x","i","v",".","o","r","g","/","h","t","m","l","/">>
HttpArxivHtml == <<"h","t","t","p",":","/","/","a","r","x","i","v",".","o","r","g","/","h","t","m","l","/">>
ImagePng == <<"i","m","a","g","e","/","p","n","g">>
DotPng == <<".","p","n","g">>
Http == <<"h","t","t","p">>
Https == <<"h","t","t","p","s">>

(* ------------------------------- inputs -------------------------------- *)

UrlPaperV1 == <<"h","t","t","p","s",":","/","/","a","r","x","i","v",".","o","r","g","/","h","t","m","l","/","2","5","0","4","v","1">>
UrlPaperHttp == <<"h","t","t","p",":","/","/","a","r","x","i","v",".","o","r","g","/","h","t","m","l","/","a">>
UrlAbs == <<"h","t","t","p","s",":","/","/","a","r","x","i","v",".","o","r","g","/","a","b","s","/","2","5","0","4">>
UrlShort == <<"f","t","p",":","/","/","a",".","b">>
UrlOtherHost == <<"h","t","t","p","s",":","/","/","e","x","a","m","p","l","e",".","o","r","g","/","h","t","m","l","/","x">>
UrlUpperScheme == <<"H","T","T","P","S",":","/","/","a","r","x","i","v",".","o","r","g","/","h","t","m","l","/","a">>
UrlArticle == <<"h","t","t","p",":","/","/","e","x","a","m","p","l","e",".","c","o","m","/","a">>
UrlNoScheme == <<"e","x","a","m","p","l","e",".","c","o","m","/","a","r","t","i","c","l","e">>
UrlEmptyHost == <<"h","t","t","p",":","/","/","/","p","a","t","h","/","x">>
UrlFtp == <<"f","t","p",":","/","/","e","x","a","m","p","l","e",".","c","o","m","/","a">>
UrlTiny == <<"h","t","t","p",":","/","/","a">>
UrlUpper == <<"H","T","T","P",":","/","/","E","X","A","M","P","L","E",".","C","O","M","/">>
UrlBadBracket == <<"h","t","t","p",":","/","/","[","b","a","d","/","a","b","c">>

CtPng == <<"i","m","a","g","e","/","p","n","g">>
CtPngUpper == <<"I","M","A","G","E","/","P","N","G">>
CtPngParam == <<"i","m","a","g","e","/","p","n","g",";"," ","q","=","1">>
CtHtml == <<"t","e","x","t","/","h","t","m","l">>
CtPartial == <<"i","m","a","g","e","/","p","n">>

\* urls sent to /get_single_arxiv_image
ImageUrlInputs ==
  {b \o Slashes(k) : b \in {UrlPaperV1, UrlPaperHttp, HttpsArxivHtml, UrlAbs, UrlShort,
                            UrlOtherHost, UrlUpperScheme},
                     k \in 0..MaxSlashes}

\* the index query parameter as sent: an integer, or text that is not one
NoIndex == [isInt |-> TRUE, val |-> 0]

IndexInputs == {[isInt |-> TRUE, val |-> n] : n \in 0..MaxIndex}
               \cup {[isInt |-> FALSE, val |-> 0]}

\* urls sent to /extract_article_content
ExtractUrlInputs ==
  {b \o Slashes(k) : b \in {UrlArticle, UrlNoScheme, UrlEmptyHost, UrlFtp, UrlTiny,
                            UrlUpper, UrlBadBracket},
                     k \in 0..MaxSlashes}

(* -------------------------- upstream outcomes -------------------------- *)

\* the Content-Type header of the upstream response, possibly absent
NoHeader == [present |-> FALSE, value |-> <<>>]

Header(v) == [present |-> TRUE, value |-> v]

ContentTypeHeaders == {NoHeader} \cup
                      {Header(v) : v \in {CtPng, CtPngUpper, CtPngParam, CtHtml, CtPartial}}

UpstreamStatuses == {200, 204, 301, 403, 404, 500}

\* body bytes: an ASCII letter (65) and a byte that is not valid text (255)
ByteValues == {65, 255}

Bodies == SeqsUpTo(ByteValues, MaxBodyLen)

\* classes of requests.exceptions raised by requests.get
TransportErrors == {"ReadTimeout", "ConnectTimeout", "ConnectionError", "TooManyRedirects"}

NoUpstream == [kind |-> "none", status |-> 0, ctype |-> NoHeader, body |-> <<>>, cls |-> ""]

UpstreamOutcomes ==
  {[kind |-> "response", status |-> s, ctype |-> h, body |-> b, cls |-> ""] :
       s \in UpstreamStatuses, h \in ContentTypeHeaders, b \in Bodies}
  \cup {[kind |-> "exception", status |-> 0, ctype |-> NoHeader, body |-> <<>>, cls |-> c] :
       c \in TransportErrors}

(* ----------------------------- exceptions ------------------------------ *)

\* the classes an exception of class c is an instance of
Ancestors(c) ==
  CASE c = "ReadTimeout"      -> {"ReadTimeout", "Timeout", "RequestException", "OSError", "Exception"}
    [] c = "ConnectTimeout"   -> {"ConnectTimeout", "ConnectionError", "Timeout",
                                  "RequestException", "OSError", "Exception"}
    [] c = "ConnectionError"  -> {"ConnectionError", "RequestException", "OSError", "Exception"}
    [] c = "TooManyRedirects" -> {"TooManyRedirects", "RequestException", "OSError", "Exception"}
    [] c = "HTTPException"    -> {"HTTPException", "Exception"}
    [] c = "ValueError"       -> {"ValueError", "Exception"}
    [] c = "RuntimeError"     -> {"RuntimeError", "Exception"}
    [] OTHER                  -> {c}

\* a detail message: a literal with the formatted values of its {} fields
Detail(msg, args) == [msg |-> msg, args |-> args]

NoDetail == Detail("", <<>>)

\* HTTPException(status_code=status, detail=detail)
HTTPException(status, detail) == [cls |-> "HTTPException", status |-> status, detail |-> detail]

\* any other exception; its detail is its message
Exception(cls, msg) == [cls |-> cls, status |-> 0, detail |-> Detail(msg, <<>>)]

\* str(e), the text an f-string puts in place of {e}
ExcStr(e) == IF e.cls = "HTTPException"
             THEN IntToStr(e.status) \o <<":", " ", e.detail.msg>>
             ELSE <<e.detail.msg>>

\* the exception requests.get raises for a transport failure
TransportException(cls) == Exception(cls, cls)

\* the outcome of a block of code: it returns a response or raises
NoResp == [kind |-> "none", status |-> 0, mediaType |-> "", body |-> <<>>,
           url |-> <<>>, content |-> <<>>, detail |-> NoDetail]

NoExc == [cls |-> "", status |-> 0, detail |-> NoDetail]

Return(r) == [kind |-> "return", resp |-> r, exc |-> NoExc]

Raise(e) == [kind |-> "raise", resp |-> NoResp, exc |-> e]

\* the block ran to its end without returning or raising
FallThrough == [kind |-> "next", resp |-> NoResp, exc |-> NoExc]

\* the first except clause (1-based) whose class the exception is an instance of; 0 if none
FirstMatch(clauses, e) ==
  IF \E i \in 1..Len(clauses) : clauses[i] \in Ancestors(e.cls)
  THEN CHOOSE i \in 1..Len(clauses) :
          /\ clauses[i] \in Ancestors(e.cls)
          /\ \A j \in 1..(i - 1) : clauses[j] \notin Ancestors(e.cls)
  ELSE 0

(* ------------------------ the serving framework ------------------------ *)

\* Response(content=..., media_type=...)
BinaryResponse(body, mediaType) ==
  [kind |-> "binary", status |-> 200, mediaType |-> mediaType, body |-> body,
   url |-> <<>>, content |-> <<>>, detail |-> NoDetail]

\* JSONResponse(content={"url": ..., "content": ...})
JSONResponse(u, text) ==
  [kind |-> "json", status |-> 200, mediaType |-> "application/json", body |-> <<>>,
   url |-> u, content |-> text, detail |-> NoDetail]

\* the JSON error body {"detail": ...} sent for an HTTPException
ErrorResponse(status, detail) ==
  [kind |-> "error", status |-> status, mediaType |-> "application/json", body |-> <<>>,
   url |-> <<>>, content |-> <<>>, detail |-> detail]

\* an exception that no handler mapped leaves the endpoint function
UnhandledResponse(e) ==
  [kind |-> "unhandled", status |-> 500, mediaType |-> "text/plain", body |-> <<>>,
   url |-> <<>>, content |-> <<>>, detail |-> NoDetail]

\* what the caller receives for the outcome of the endpoint function
Respond(outcome) ==
  IF outcome.kind = "return" THEN outcome.resp
  ELSE IF outcome.exc.cls = "HTTPException"
       THEN ErrorResponse(outcome.exc.status, outcome.exc.detail)
       ELSE UnhandledResponse(outcome.exc)

\* a query parameter that fails its Query(...) constraints is answered by the
\* framework with 422 and the list of validation errors, before the function runs
QueryValidationStatus == 422

QueryValidationError(errors) == ErrorResponse(QueryValidationStatus, Detail("validation errors", errors))

(* ------------------------------ urlparse ------------------------------- *)

SchemeChars == LowerLetters \cup UpperLetters \cup Digits \cup {"+", "-", "."}

\* length of the scheme of u (the text before the first ":"), 0 when u has none
SchemeLen(u) ==
  LET i == Find(u, ":")
  IN IF /\ i > 1
        /\ u[1] \in LowerLetters \cup UpperLetters
        /\ \A j \in 1..(i - 1) : u[j] \in SchemeChars
     THEN i - 1 ELSE 0

\* characters of s from position i (1-based) up to the first "/", "?" or "#"
RECURSIVE UpToDelimiter(_, _)
UpToDelimiter(s, i) ==
  IF i > Len(s) \/ s[i] \in {"/", "?", "#"} THEN <<>>
  ELSE <<s[i]>> \o UpToDelimiter(s, i + 1)

\* urlparse(u): the scheme (lower-cased) and the netloc, or ValueError
UrlParse(u) ==
  LET n      == SchemeLen(u)
      scheme == IF n = 0 THEN <<>> ELSE Lower(SubSeq(u, 1, n))
      rest   == IF n = 0 THEN u ELSE SubSeq(u, n + 2, Len(u))
      netloc == IF StartsWith(rest, <<"/", "/">>) THEN UpToDelimiter(rest, 3) ELSE <<>>
      open   == \E i \in 1..Len(netloc) : netloc[i] = "["
      close  == \E i \in 1..Len(netloc) : netloc[i] = "]"
  IN [valueError |-> (open /\ ~close) \/ (close /\ ~open),
      scheme |-> scheme, netloc |-> netloc]

\* what trafilatura.extract can do with a page: return text, "" or None, or raise
NoExtraction == [kind |-> "notcalled", text |-> <<>>]

ExtractionOutcomes == {[kind |-> "text", text |-> <<"A">>], [kind |-> "text", text |-> <<>>],
                       [kind |-> "none", text |-> <<>>], [kind |-> "raise", text |-> <<>>]}

(* -------------------------------- state -------------------------------- *)

VARIABLES
  endpoint,      \* "image" or "extract": the route of the request
  url,           \* the url query parameter
  index,         \* the index query parameter (image route)
  pc,            \* position of the request in its handler
  image_url,     \* the url built by get_single_arxiv_image
  fetched,       \* the urls passed to requests.get, in order
  upstream,      \* what requests.get produced
  html_content,  \* extract_article_content's html_content
  extracted,     \* the texts passed to trafilatura.extract, in order
  extraction,    \* what trafilatura.extract produced
  resp,          \* the response sent to the caller
  nResp,         \* number of responses sent
  rejected       \* the request was refused by input validation

vars == <<endpoint, url, index, pc, image_url, fetched, upstream, html_content,
          extracted, extraction, resp, nResp, rejected>>

\* html_content: str | None
None == [isNone |-> TRUE, text |-> <<>>]

Str(t) == [isNone |-> FALSE, text |-> t]

\* Python truth value of a str | None
Truthy(v) == ~v.isNone /\ v.text # <<>>

Init ==
  /\ endpoint \in {"image", "extract"}
  /\ url \in (IF endpoint = "image" THEN ImageUrlInputs ELSE ExtractUrlInputs)
  /\ index \in (IF endpoint = "image" THEN IndexInputs ELSE {NoIndex})
  /\ pc = "query"
  /\ image_url = <<>>
  /\ fetched = <<>>
  /\ upstream = NoUpstream
  /\ html_content = None
  /\ extracted = <<>>
  /\ extraction = NoExtraction
  /\ resp = NoResp
  /\ nResp = 0
  /\ rejected = FALSE

\* the response leaves the server and the request is over
Send(r) ==
  /\ resp' = r
  /\ nResp' = nResp + 1
  /\ pc' = "done"

(* ----------------------- get_single_arxiv_image ------------------------ *)

\* regex=r"^https?://arxiv\.org/html/.*"
ArxivRegexMatch(u) == StartsWith(u, HttpsArxivHtml) \/ StartsWith(u, HttpArxivHtml)

\* the validation errors of the url parameter
ImageUrlErrors(u) ==
  IF Len(u) < ImageUrlMinLength THEN <<"string_too_short">>
  ELSE IF ~ArxivRegexMatch(u) THEN <<"string_pattern_mismatch">>
  ELSE <<>>

\* an index constraint that forgets le=4
IndexErrorsNoLe(i) ==
  IF ~i.isInt THEN <<"int_parsing">>
  ELSE IF ~(i.val >= IndexGe) THEN <<"greater_than_equal">>
  ELSE <<>>

\* the validation errors of the index parameter
IndexErrors(i) ==
  IF ~i.isInt THEN <<"int_parsing">>
  ELSE IF ~(i.val >= IndexGe) THEN <<"greater_than_equal">>
  ELSE IF ~(i.val <= IndexLe) THEN <<"less_than_equal">>
  ELSE <<>>

\* the framework checks the Query(...) constraints before calling the function
ImageQueryValidation ==
  /\ pc = "query"
  /\ endpoint = "image"
  /\ LET errors == ImageUrlErrors(url) \o IndexErrors(index)
     IN IF errors # <<>>
        THEN /\ Send(QueryValidationError(errors))
             /\ rejected' = TRUE
        ELSE /\ pc' = "parse"
             /\ UNCHANGED <<resp, nResp, rejected>>
  /\ UNCHANGED <<endpoint, url, index, image_url, fetched, upstream, html_content, extracted, extraction>>

\* removing one trailing slash only
RStripOne(s) == IF s # <<>> /\ s[Len(s)] = "/" THEN SubSeq(s, 1, Len(s) - 1) ELSE s

\* str.rstrip('/')
RECURSIVE RStrip(_)
RStrip(s) == IF s # <<>> /\ s[Len(s)] = "/" THEN RStrip(SubSeq(s, 1, Len(s) - 1)) ELSE s

\* image_url = f"{base_url}/{image_filename}" with image_filename = f"x{index}.png"
ImageUrl(u, i) == RStrip(u) \o <<"/">> \o (<<"x">> \o IntToStr(i) \o DotPng)

\* the urlparse check: only a ValueError rejects; a failed detailed check is logged
ImageParseUrl ==
  /\ pc = "parse"
  /\ endpoint = "image"
  /\ IF UrlParse(url).valueError
     THEN /\ Send(Respond(Raise(HTTPException(400, Detail("Invalid URL format.", <<>>)))))
          /\ rejected' = TRUE
          /\ UNCHANGED image_url
     ELSE /\ image_url' = ImageUrl(url, index.val)
          /\ pc' = "fetch"
          /\ UNCHANGED <<resp, nResp, rejected>>
  /\ UNCHANGED <<endpoint, url, index, fetched, upstream, html_content, extracted, extraction>>

\* response = requests.get(image_url, timeout=REQUEST_TIMEOUT, stream=False)
ImageFetch ==
  /\ pc = "fetch"
  /\ endpoint = "image"
  /\ fetched' = Append(fetched, image_url)
  /\ upstream' \in UpstreamOutcomes
  /\ pc' = "interpret"
  /\ UNCHANGED <<endpoint, url, index, image_url, html_content, extracted, extraction,
                 resp, nResp, rejected>>

\* response.headers.get('Content-Type', '')
ContentType(up) == IF up.ctype.present THEN up.ctype.value ELSE <<>>

\* the body of the try block, from the result of requests.get on
ImageTryBody(up, i) ==
  IF up.kind = "exception" THEN Raise(TransportException(up.cls))
  ELSE IF up.status = 200
       THEN LET content_type == Lower(ContentType(up))
            IN IF Contains(content_type, ImagePng)
               THEN Return(BinaryResponse(up.body, "image/png"))
               ELSE Raise(HTTPException(400,
                      Detail("Resource found at index {}, but it's not a PNG image (Content-Type: {}).",
                             <<IntToStr(i), content_type>>)))
       ELSE IF up.status = 404
            THEN Raise(HTTPException(404,
                   Detail("Image index {} not found for this URL.", <<IntToStr(i)>>)))
            ELSE Raise(HTTPException(502,
                   Detail("Failed to fetch image from arXiv. Status code: {}", <<IntToStr(up.status)>>)))

\* the connection clause written before the timeout clause
FetchExceptConnectionFirst == <<"ConnectionError", "Timeout", "RequestException">>

\* a last clause that catches every exception
FetchExceptCatchAll == <<"Timeout", "ConnectionError", "Exception">>

\* no clause for the remaining transport errors
FetchExceptNoFallback == <<"Timeout", "ConnectionError">>

\* the classes of the except clauses of both fetch blocks, in order
FetchExceptClauses == <<"Timeout", "ConnectionError", "RequestException">>

\* the except clauses of the image fetch
ImageExcept(outcome) ==
  IF outcome.kind # "raise" THEN outcome
  ELSE LET clause == FirstMatch(FetchExceptClauses, outcome.exc)
       IN CASE clause = 1 ->
                 Raise(HTTPException(504,
                   Detail("Gateway Timeout while fetching image from arXiv.", <<>>)))
            [] clause = 2 ->
                 Raise(HTTPException(503,
                   Detail("Service Unavailable. Could not connect to arXiv server to fetch image.", <<>>)))
            [] clause = 3 ->
                 Raise(HTTPException(500,
                   Detail("An internal error occurred: {}", <<ExcStr(outcome.exc)>>)))
            [] OTHER -> outcome

\* a handler that fetches once more after a timeout
ImageInterpretRetry ==
  /\ pc = "interpret"
  /\ endpoint = "image"
  /\ IF upstream.kind = "exception" /\ "Timeout" \in Ancestors(upstream.cls) /\ Len(fetched) < 2
     THEN /\ pc' = "fetch"
          /\ UNCHANGED <<resp, nResp>>
     ELSE Send(Respond(ImageExcept(ImageTryBody(upstream, index.val))))
  /\ UNCHANGED <<endpoint, url, index, image_url, fetched, upstream, html_content,
                 extracted, extraction, rejected>>

\* the handler interprets the result of the fetch and answers
ImageInterpret ==
  /\ pc = "interpret"
  /\ endpoint = "image"
  /\ Send(Respond(ImageExcept(ImageTryBody(upstream, index.val))))
  /\ UNCHANGED <<endpoint, url, index, image_url, fetched, upstream, html_content,
                 extracted, extraction, rejected>>

(* ----------------------- extract_article_content ----------------------- *)

\* the framework checks Query(min_length=10) before calling the function
ExtractQueryValidation ==
  /\ pc = "query"
  /\ endpoint = "extract"
  /\ IF Len(url) < ExtractUrlMinLength
     THEN /\ Send(QueryValidationError(<<"string_too_short">>))
          /\ rejected' = TRUE
     ELSE /\ pc' = "parse"
          /\ UNCHANGED <<resp, nResp, rejected>>
  /\ UNCHANGED <<endpoint, url, index, image_url, fetched, upstream, html_content,
                 extracted, extraction>>

\* the try block of the url check: urlparse, then the scheme and netloc test
ExtractUrlTryBody(u) ==
  LET parsed_url == UrlParse(u)
  IN IF parsed_url.valueError THEN Raise(Exception("ValueError", "Invalid IPv6 URL"))
     ELSE IF ~(parsed_url.scheme \in {Http, Https} /\ parsed_url.netloc # <<>>)
          THEN Raise(Exception("ValueError", "Invalid URL scheme or netloc"))
          ELSE FallThrough

\* except ValueError of the url check
ExtractUrlExcept(outcome) ==
  IF outcome.kind = "raise" /\ FirstMatch(<<"ValueError">>, outcome.exc) = 1
  THEN Raise(HTTPException(400,
         Detail("Invalid URL format. Please provide a full URL (e.g., http://example.com).", <<>>)))
  ELSE outcome

ExtractParseUrl ==
  /\ pc = "parse"
  /\ endpoint = "extract"
  /\ LET outcome == ExtractUrlExcept(ExtractUrlTryBody(url))
     IN IF outcome.kind = "next"
        THEN /\ pc' = "fetch"
             /\ UNCHANGED <<resp, nResp, rejected>>
        ELSE /\ Send(Respond(outcome))
             /\ rejected' = TRUE
  /\ UNCHANGED <<endpoint, url, index, image_url, fetched, upstream, html_content,
                 extracted, extraction>>

\* response = requests.get(url, headers=headers, timeout=REQUEST_TIMEOUT, ...)
ExtractFetch ==
  /\ pc = "fetch"
  /\ endpoint = "extract"
  /\ fetched' = Append(fetched, url)
  /\ upstream' \in UpstreamOutcomes
  /\ pc' = "interpret"
  /\ UNCHANGED <<endpoint, url, index, image_url, html_content, extracted, extraction,
                 resp, nResp, rejected>>

\* response.text: no text for no content; otherwise every byte becomes a
\* character, a byte that does not decode becoming a replacement character
ResponseText(body) == [i \in 1..Len(body) |-> IF body[i] = 65 THEN "A" ELSE "?"]

\* the body of the fetch try block, from the result of requests.get on
ExtractFetchTryBody(up) ==
  IF up.kind = "exception" THEN Raise(TransportException(up.cls))
  ELSE IF up.status = 200 THEN FallThrough
       ELSE IF up.status = 404
            THEN Raise(HTTPException(404, Detail("The target article URL was not found.", <<>>)))
            ELSE Raise(HTTPException(502,
                   Detail("Failed to fetch content from the target URL. Status code: {}",
                          <<IntToStr(up.status)>>)))

\* the except clauses of the page fetch
ExtractFetchExcept(outcome) ==
  IF outcome.kind # "raise" THEN outcome
  ELSE LET clause == FirstMatch(FetchExceptClauses, outcome.exc)
       IN CASE clause = 1 ->
                 Raise(HTTPException(504,
                   Detail("Gateway Timeout while fetching content from the target URL.", <<>>)))
            [] clause = 2 ->
                 Raise(HTTPException(503,
                   Detail("Service Unavailable. Could not connect to the target URL server.", <<>>)))
            [] clause = 3 ->
                 Raise(HTTPException(500,
                   Detail("An internal error occurred while fetching the URL: {}",
                          <<ExcStr(outcome.exc)>>)))
            [] OTHER -> outcome

ExtractInterpret ==
  /\ pc = "interpret"
  /\ endpoint = "extract"
  /\ LET outcome == ExtractFetchExcept(ExtractFetchTryBody(upstream))
     IN IF outcome.kind = "next"
        THEN /\ html_content' = Str(ResponseText(upstream.body))
             /\ pc' = "extract"
             /\ UNCHANGED <<resp, nResp>>
        ELSE /\ Send(Respond(outcome))
             /\ UNCHANGED html_content
  /\ UNCHANGED <<endpoint, url, index, image_url, fetched, upstream, extracted, extraction,
                 rejected>>

\* the body of the extraction try block, from the result of trafilatura.extract on
ExtractionTryBody(u, result) ==
  IF result.kind = "raise" THEN Raise(Exception("RuntimeError", "extraction failed"))
  ELSE LET extracted_text == IF result.kind = "none" THEN None ELSE Str(result.text)
       IN IF Truthy(extracted_text)
          THEN Return(JSONResponse(u, extracted_text.text))
          ELSE Raise(HTTPException(422,
                 Detail("Could not extract main content from the provided URL. It might not be a standard article page.",
                        <<>>)))

\* the classes of the except clauses of the extraction block
ExtractionExceptClauses == <<"Exception">>

\* except Exception as e, around the extraction
ExtractionExcept(outcome) ==
  IF outcome.kind = "raise" /\ FirstMatch(ExtractionExceptClauses, outcome.exc) = 1
  THEN Raise(HTTPException(500,
         Detail("An internal error occurred during content extraction: {}",
                <<ExcStr(outcome.exc)>>)))
  ELSE outcome

\* if html_content: extract and answer; else: the guard branch
ExtractContent ==
  /\ pc = "extract"
  /\ endpoint = "extract"
  /\ IF Truthy(html_content)
     THEN /\ extracted' = Append(extracted, html_content.text)
          /\ extraction' \in ExtractionOutcomes
          /\ Send(Respond(ExtractionExcept(ExtractionTryBody(url, extraction'))))
     ELSE /\ Send(Respond(Raise(HTTPException(500,
                 Detail("Internal error: HTML content was unexpectedly missing.", <<>>)))))
          /\ UNCHANGED <<extracted, extraction>>
  /\ UNCHANGED <<endpoint, url, index, image_url, fetched, upstream, html_content, rejected>>

(* ---------------------------- specification ---------------------------- *)

Next ==
  \/ ImageQueryValidation
  \/ ImageParseUrl
  \/ ImageFetch
  \/ ImageInterpret
  \/ ExtractQueryValidation
  \/ ExtractParseUrl
  \/ ExtractFetch
  \/ ExtractInterpret
  \/ ExtractContent

Spec == Init /\ [][Next]_vars

\* the server runs a request's handler to its end
FairSpec == Spec /\ WF_vars(Next)

(* ------------------------------- claims -------------------------------- *)

Done == pc = "done"

Range(f) == {f[i] : i \in DOMAIN f}

UpstreamOk == upstream.kind = "response" /\ upstream.status = 200

\* C1: on the extraction route, an upstream 200 whose extraction returns "" or
\* None without raising is answered with a 422 error.
C1_EmptyExtractionIs422 ==
  (/\ Done
   /\ endpoint = "extract"
   /\ UpstreamOk
   /\ \/ extraction.kind = "none"
      \/ extraction.kind = "text" /\ extraction.text = <<>>)
  => (resp.kind = "error" /\ resp.status = 422)

\* C2: every request refused by input validation is answered with status 400.
C2_RejectionIs400 ==
  (Done /\ rejected) => (resp.kind = "error" /\ resp.status = 400)

\* inputs the image route must refuse: index not an integer or outside 1..4,
\* or a url that does not start with http(s)://arxiv.org/html/
BadImageInput ==
  /\ endpoint = "image"
  /\ \/ ~index.isInt
     \/ index.val \notin 1..4
     \/ ~(StartsWith(url, HttpsArxivHtml) \/ StartsWith(url, HttpArxivHtml))

\* inputs the extraction route must refuse: no scheme, or an empty host
BadExtractInput ==
  /\ endpoint = "extract"
  /\ StartsWith(url, UrlNoScheme) \/ StartsWith(url, UrlEmptyHost)

\* C3: a request with a refused input never makes an outbound call, and ends
\* in an error response.
C3_ValidationBeforeFetch ==
  (BadImageInput \/ BadExtractInput)
  => /\ fetched = <<>>
     /\ upstream = NoUpstream
     /\ Done => (resp.kind = "error" /\ rejected)

C3_Witness ==
  /\ Done
  /\ BadImageInput
  /\ index.isInt /\ index.val = 5
  /\ StartsWith(url, HttpsArxivHtml)
  /\ resp.kind = "error"
  /\ fetched = <<>>

\* C4: on both routes a fetch that times out, a connect timeout included, is
\* answered with 504.
C4_TimeoutIs504 ==
  (Done /\ upstream.kind = "exception" /\ upstream.cls \in {"ReadTimeout", "ConnectTimeout"})
  => (resp.kind = "error" /\ resp.status = 504)

C4_Witness ==
  /\ Done
  /\ endpoint = "extract"
  /\ upstream.kind = "exception" /\ upstream.cls = "ConnectTimeout"
  /\ resp.status = 504

\* Content-Type headers that contain image/png in some letter case
PngHeaders == {Header(CtPng), Header(CtPngUpper), Header(CtPngParam)}

\* C5: on the image route an upstream 200 with a Content-Type containing
\* image/png (any letter case) is answered 200, image/png, with the upstream
\* body; any other or absent Content-Type is answered 400 with no body bytes.
C5_PngPassThrough ==
  (Done /\ endpoint = "image" /\ UpstreamOk)
  => IF upstream.ctype \in PngHeaders
     THEN /\ resp.kind = "binary"
          /\ resp.status = 200
          /\ resp.mediaType = "image/png"
          /\ resp.body = upstream.body
     ELSE /\ resp.kind = "error"
          /\ resp.status = 400
          /\ resp.body = <<>>

C5_Witness ==
  /\ Done
  /\ endpoint = "image"
  /\ UpstreamOk
  /\ upstream.ctype = Header(CtPngUpper)
  /\ upstream.body # <<>>
  /\ resp.body = upstream.body

\* C6: the url fetched by the image route is p/x<index>.png where p does not
\* end with a slash and the request url is p followed by slashes only; it is
\* never the request url itself.
C6_ImageUrlShape ==
  (endpoint = "image" /\ fetched # <<>>)
  => LET f    == fetched[1]
         n    == Len(f)
         file == <<"/", "x", DigitChar[index.val + 1], ".", "p", "n", "g">>
         p    == SubSeq(f, 1, n - 7)
     IN /\ index.val \in 1..4
        /\ n > 7
        /\ SubSeq(f, n - 6, n) = file
        /\ p[Len(p)] # "/"
        /\ StartsWith(url, p)
        /\ \A i \in (Len(p) + 1)..Len(url) : url[i] = "/"
        /\ f # url

C6_Witness ==
  /\ endpoint = "image"
  /\ fetched # <<>>
  /\ index.val = 4
  /\ Len(url) > 2
  /\ url[Len(url)] = "/" /\ url[Len(url) - 1] = "/"

\* C7: a request that passes validation makes exactly one outbound fetch, and
\* no request makes a second one, whatever the fetch or the extraction did.
C7_ExactlyOneFetch ==
  /\ Len(fetched) <= 1
  /\ (pc \in {"interpret", "extract"}) => Len(fetched) = 1
  /\ (Done /\ ~rejected) => Len(fetched) = 1

C7_Witness ==
  /\ Done
  /\ ~rejected
  /\ upstream.kind = "exception" /\ upstream.cls = "ReadTimeout"
  /\ Len(fetched) = 1

\* C8: on the image route an upstream status other than 200 is mapped by
\* status alone, 404 to a 404 naming the index and any other to 502; an error
\* chosen from the upstream response never becomes 504, 503 or 500.
C8_ImageStatusMapping ==
  (Done /\ endpoint = "image" /\ upstream.kind = "response")
  => /\ resp.status \notin {504, 503, 500}
     /\ upstream.status = 404 =>
          /\ resp.kind = "error"
          /\ resp.status = 404
          /\ <<DigitChar[index.val + 1]>> \in Range(resp.detail.args)
     /\ upstream.status \notin {200, 404} =>
          /\ resp.kind = "error"
          /\ resp.status = 502

C8_Witness ==
  /\ Done
  /\ endpoint = "image"
  /\ upstream.kind = "response" /\ upstream.status = 404
  /\ index.val = 3
  /\ resp.status = 404

\* C9: on the extraction route every upstream 200, an empty body included, has
\* its text passed to the extraction routine before any error is raised.
C9_OkReachesExtraction ==
  (Done /\ endpoint = "extract" /\ UpstreamOk)
  => /\ extracted = <<ResponseText(upstream.body)>>
     /\ extraction.kind # "notcalled"

\* the caller got a success payload, or an error with a status and a detail
WellFormedResponse ==
  \/ resp.kind \in {"binary", "json"} /\ resp.status = 200
  \/ /\ resp.kind = "error"
     /\ resp.status \in 400..599
     /\ resp.detail.msg # ""

\* C10: every request ends in exactly one response, a success payload or an
\* error with a status code and a non-empty detail; no exception leaves a
\* handler unmapped.
C10_OneResponse ==
  /\ [](nResp <= 1)
  /\ [](Done => (nResp = 1 /\ WellFormedResponse))
  /\ <>[]Done

C10_Witness ==
  /\ Done
  /\ nResp = 1
  /\ endpoint = "extract"
  /\ extraction.kind = "raise"
  /\ resp.status = 500

====
